---- MODULE Spec2Model ----
(***************************************************************************)
(* Model of the two example programs of lua-tutorial:                      *)
(*   src/00-lua-state/hello-world.cpp              (prog = "hello")        *)
(*   src/02-calling-lua-function/calling-lua-function.cpp (prog = "calling")*)
(* The Lua state is modelled by its value stack; the Lua C API functions   *)
(* the programs call are operators on that stack, following the Lua 5.3    *)
(* reference manual.  The script file and the interpreter's failures are   *)
(* inputs, drawn from small sets.                                          *)
(***************************************************************************)
EXTENDS Integers, Sequences, FiniteSets, TLC

\* Largest number of values the loaded chunk returns (luaL_dofile runs the
\* chunk with LUA_MULTRET, so whatever it returns stays on the stack).
MaxChunkRet == 2

VARIABLES
    prog,        \* which example program runs
    pc,          \* position in the program
    exitCode,    \* value returned by main (NoCode until it returns)
    L,           \* "null" | "open" | "closed": the lua_State pointer's target
    env,         \* what the script file binds to hello, swap and fail
    globals,     \* the global environment of L for these three names
    stack,       \* the value stack of L, bottom first
    base,        \* number of slots below the running C function's frame
    oldtop,      \* lua_pcall's saved position of the called function
    retpc,       \* where the running lua_pcall returns to
    top,         \* pcallSwap: int top
    handlerIndex,\* pcallSwap: int handlerIndex
    result,      \* int result of the running operation's lua_pcall
    err,         \* const char *err / errorMsg / error of the running operation
    first,       \* callSwap: const char *first
    second,      \* callSwap: const char *second
    out,         \* what callSwap printed: <<first, second>>
    h            \* history of the run, read by the properties only

vars == <<prog, pc, exitCode, L, env, globals, stack, base, oldtop, retpc, top,
          handlerIndex, result, err, first, second, out, h>>

----------------------------------------------------------------------------
(* Values *)

Val(t, v, tb) == [t |-> t, v |-> v, tb |-> tb]
Nil == Val("nil", "", FALSE)
Str(s) == Val("str", s, FALSE)
Num == Val("num", "42", FALSE)
Tbl == Val("tbl", "", FALSE)
Func(kind) == Val("func", kind, FALSE)
CFunc(name) == Val("cfunc", name, FALSE)
\* a null const char *
NULLPTR == Val("NULL", "", FALSE)

Names == {"hello", "swap", "fail"}
NoGlobals == [n \in Names |-> Nil]
Ops == {"callHello", "callSwap", "pcallFail", "pcallSwap"}
Statuses == {"LUA_OK", "LUA_ERRRUN", "LUA_ERRMEM", "LUA_ERRERR", "LUA_ERRGCMM"}

\* What a script may bind to a global name the host looks up: nothing, a
\* non-callable value, or a function.
GlobalVals(name) ==
    {Nil, Num, Func("noret")} \cup (IF name = "swap" THEN {Func("swap")} ELSE {})

\* Error values a script can raise: a message, a number, or a value with no
\* string form.
ErrVals == {Str("boom"), Num, Tbl}

----------------------------------------------------------------------------
(* The Lua C API, on the value stack *)

Depth(s) == Len(s)

\* absolute position of an acceptable index (negative: relative to the top)
AbsIndex(s, idx) == IF idx > 0 THEN idx ELSE Len(s) + 1 + idx

\* idx names a slot of the running function's frame
ValidIndex(s, b, idx) == AbsIndex(s, idx) > b /\ AbsIndex(s, idx) <= Len(s)

At(s, idx) == IF AbsIndex(s, idx) >= 1 /\ AbsIndex(s, idx) <= Len(s)
              THEN s[AbsIndex(s, idx)] ELSE Nil

lua_gettop(s, b) == Len(s) - b

Push(s, v) == Append(s, v)

lua_getglobal(s, e, name) == Push(s, e[name])

lua_pushstring(s, str) == Push(s, Str(str))

lua_pushcfunction(s, name) == Push(s, CFunc(name))

lua_isnil(s, idx) == At(s, idx).t = "nil"

\* lua_settop: index 0 or positive sets the frame's depth (padding with nil),
\* a negative index is relative to the top
lua_settop(s, b, idx) ==
    LET n == IF idx >= 0 THEN b + idx ELSE Len(s) + 1 + idx
    IN IF n <= Len(s) THEN SubSeq(s, 1, IF n < 0 THEN 0 ELSE n)
       ELSE s \o [i \in 1..(n - Len(s)) |-> Nil]

\* lua_pop(L,n) is lua_settop(L, -(n)-1)
lua_pop(s, b, n) == lua_settop(s, b, -n - 1)

\* lua_tostring: the string, a number's string form, or NULL
lua_tostring(s, idx) ==
    LET x == At(s, idx)
    IN IF x.t = "str" THEN x
       ELSE IF x.t = "num" THEN Val("str", x.v, FALSE)
       ELSE NULLPTR

\* lua_tostring converts a number in place
StackAfterToString(s, idx) ==
    IF At(s, idx).t = "num" /\ AbsIndex(s, idx) >= 1
    THEN [s EXCEPT ![AbsIndex(s, idx)] = Val("str", At(s, idx).v, FALSE)]
    ELSE s

\* luaL_traceback(L, L, msg, 1): pushes msg (when not NULL) followed by a
\* stack traceback, as one string
luaL_traceback(s, msg) == Push(s, Val("str", msg.v, TRUE))

lua_remove(s, idx) ==
    LET i == AbsIndex(s, idx)
    IN IF i >= 1 /\ i <= Len(s)
       THEN SubSeq(s, 1, i - 1) \o SubSeq(s, i + 1, Len(s))
       ELSE s

Callable(v) == v.t \in {"func", "cfunc"}

\* results of a call adjusted to nresults values (extra dropped, nil padded)
Adjust(rs, nresults) ==
    [i \in 1..nresults |-> IF i <= Len(rs) THEN rs[i] ELSE Nil]

\* what a script function returns for its arguments
Returns(f, args) ==
    IF f.v = "swap"
    THEN <<(IF Len(args) >= 2 THEN args[2] ELSE Nil),
           (IF Len(args) >= 1 THEN args[1] ELSE Nil)>>
    ELSE <<>>

\* position of the called function for a call with nargs arguments
FuncPos(s, nargs) == Len(s) - nargs

Args(s, nargs) == SubSeq(s, Len(s) - nargs + 1, Len(s))

\* the stack after a call that returned: function and arguments replaced by
\* the adjusted results
StackAfterReturn(s, nargs, nresults) ==
    SubSeq(s, 1, FuncPos(s, nargs) - 1)
        \o Adjust(Returns(s[FuncPos(s, nargs)], Args(s, nargs)), nresults)

\* the stack after lua_pcall caught an error: function and arguments replaced
\* by the one error value
StackAfterError(s, fpos, e) == SubSeq(s, 1, fpos - 1) \o <<e>>

\* the ways a call can end.  A non-callable value raises at once.
Outcomes(f) ==
    IF Callable(f) THEN {"return", "raise", "mem", "gcmm", "errerr"}
    ELSE {"raise"}

\* the value raised
Raised(f) ==
    IF Callable(f) THEN ErrVals ELSE {Str("attempt to call")}

StatusOf(o) ==
    CASE o = "return" -> "LUA_OK"
      [] o = "raise"  -> "LUA_ERRRUN"
      [] o = "mem"    -> "LUA_ERRMEM"
      [] o = "gcmm"   -> "LUA_ERRGCMM"
      [] OTHER        -> "LUA_ERRERR"

\* the error value the interpreter itself produces for a status
InterpErr(o) ==
    CASE o = "mem"  -> Str("not enough memory")
      [] o = "gcmm" -> Str("error in __gc metamethod")
      [] OTHER      -> Str("error in error handling")

----------------------------------------------------------------------------
(* History *)

NoDepth == 0 - 1

\* main has not returned
NoCode == 0 - 2

H0 == [ created     |-> FALSE,
        closeCount  |-> 0,
        loadDepth   |-> NoDepth,
        closeDepth  |-> NoDepth,
        entryDepth  |-> [o \in Ops |-> NoDepth],
        retDepth    |-> [o \in Ops |-> NoDepth],
        preDepth    |-> [o \in Ops |-> NoDepth],
        looked      |-> [o \in Ops |-> NULLPTR],
        invoked     |-> [o \in Ops |-> FALSE],
        notFound    |-> [o \in Ops |-> FALSE],
        status      |-> [o \in Ops |-> "none"],
        raised      |-> [o \in Ops |-> FALSE],
        handlerCalls|-> 0,
        handlerFailed |-> FALSE,
        handlerPos  |-> 0,
        msgh        |-> 0,
        running     |-> "",
        pcalls      |-> [o \in Ops |-> 0],
        reported    |-> [o \in Ops |-> 0],
        badIndex    |-> FALSE,
        outOfLife   |-> FALSE,
        mhEntry     |-> <<>>,
        mhExit      |-> <<>>,
        mhNResults  |-> 0,
        crashed     |-> "no" ]

Init ==
    /\ prog \in {"hello", "calling"}
    /\ pc = "m_newstate"
    /\ exitCode = NoCode
    /\ L = "null"
    /\ env \in [Names -> {Nil, Num, Func("noret"), Func("swap")}]
    /\ \A n \in DOMAIN env : env[n] \in GlobalVals(n)
    /\ (prog = "hello" => env = NoGlobals)
    /\ globals = NoGlobals
    /\ stack = <<>>
    /\ base = 0
    /\ oldtop = 0
    /\ retpc = ""
    /\ top = 0
    /\ handlerIndex = 0
    /\ result = "none"
    /\ err = NULLPTR
    /\ first = NULLPTR
    /\ second = NULLPTR
    /\ out = <<>>
    /\ h = H0

----------------------------------------------------------------------------
(* An API call made with the stack index idx valid or not, on a live or a
   dead instance: recorded in the history *)
Use(hh, okIndex) ==
    [hh EXCEPT !.badIndex = @ \/ ~okIndex, !.outOfLife = @ \/ (L # "open")]

Enter(hh, op, s) == [hh EXCEPT !.entryDepth[op] = Depth(s)]

Leave(hh, op, s) == [hh EXCEPT !.retDepth[op] = Depth(s)]

Abort(hh, how) == [hh EXCEPT !.crashed = how]

----------------------------------------------------------------------------
(* main of both programs *)

m_newstate ==
    /\ pc = "m_newstate"
    /\ \/ /\ L' = "open"
          /\ h' = [h EXCEPT !.created = TRUE]
          /\ pc' = "m_openlibs"
          /\ UNCHANGED exitCode
       \/ /\ pc' = "done"
          /\ exitCode' = 0 - 1
          /\ UNCHANGED <<L, h>>
    /\ UNCHANGED <<prog, env, globals, stack, base, oldtop, retpc, top, handlerIndex,
                   result, err, first, second, out>>

m_openlibs ==
    /\ pc = "m_openlibs"
    /\ pc' = IF prog = "hello" THEN "m_dostring" ELSE "m_dofile"
    /\ h' = Use(h, TRUE)
    /\ UNCHANGED <<prog, exitCode, L, env, globals, stack, base, oldtop, retpc, top,
                   handlerIndex, result, err, first, second, out>>

\* hello-world.cpp: luaL_dostring(L,"print('Hello world!')")
m_dostring ==
    /\ pc = "m_dostring"
    /\ h' = Use(h, TRUE)
    /\ \/ /\ pc' = "m_close"
          /\ UNCHANGED <<stack, exitCode>>
       \/ /\ \E e \in ErrVals : stack' = Push(stack, e)
          /\ pc' = "done"
          /\ exitCode' = 0 - 1
    /\ UNCHANGED <<prog, L, env, globals, base, oldtop, retpc, top, handlerIndex,
                   result, err, first, second, out>>

\* calling-lua-function.cpp: luaL_dofile(L,"calling-lua-function.lua")
m_dofile ==
    /\ pc = "m_dofile"
    /\ \/ /\ \E k \in 0..MaxChunkRet :
                /\ stack' = stack \o [i \in 1..k |-> Num]
                /\ h' = [Use(h, TRUE) EXCEPT !.loadDepth = Depth(stack) + k]
          /\ globals' = env
          /\ pc' = "ch_getglobal"
       \/ /\ \E e \in ErrVals : stack' = Push(stack, e)
          /\ h' = Use(h, TRUE)
          /\ pc' = "m_checkstring"
          /\ UNCHANGED globals
    /\ UNCHANGED <<prog, exitCode, L, env, base, oldtop, retpc, top, handlerIndex,
                   result, err, first, second, out>>

\* luaL_checkstring(L,-1) raises an error when the value has no string form;
\* outside any protected call that ends the process
m_checkstring ==
    /\ pc = "m_checkstring"
    /\ \/ /\ lua_tostring(stack, -1) # NULLPTR
          /\ err' = lua_tostring(stack, -1)
          /\ stack' = StackAfterToString(stack, -1)
          /\ h' = Use(h, ValidIndex(stack, base, -1))
          /\ pc' = "done"
          /\ exitCode' = 0 - 1
       \/ /\ lua_tostring(stack, -1) = NULLPTR
          /\ h' = Abort(Use(h, ValidIndex(stack, base, -1)), "panic")
          /\ pc' = "aborted"
          /\ UNCHANGED <<err, stack, exitCode>>
    /\ UNCHANGED <<prog, L, env, globals, base, oldtop, retpc, top, handlerIndex,
                   result, first, second, out>>

m_close ==
    /\ pc = "m_close"
    /\ L' = "closed"
    /\ h' = [Use(h, TRUE) EXCEPT !.closeCount = @ + 1, !.closeDepth = Depth(stack)]
    /\ pc' = "m_return"
    /\ UNCHANGED <<prog, exitCode, env, globals, stack, base, oldtop, retpc, top,
                   handlerIndex, result, err, first, second, out>>

m_return ==
    /\ pc = "m_return"
    /\ exitCode' = 0
    /\ pc' = "done"
    /\ UNCHANGED <<prog, L, env, globals, stack, base, oldtop, retpc, top,
                   handlerIndex, result, err, first, second, out, h>>

----------------------------------------------------------------------------
(* void callHello(lua_State *L) *)

ch_getglobal ==
    /\ pc = "ch_getglobal"
    /\ stack' = lua_getglobal(stack, globals, "hello")
    /\ h' = [Enter(Use(h, TRUE), "callHello", stack)
                EXCEPT !.looked["callHello"] = globals["hello"]]
    /\ pc' = "ch_isnil"
    /\ UNCHANGED <<prog, exitCode, L, env, globals, base, oldtop, retpc, top,
                   handlerIndex, result, err, first, second, out>>

ch_isnil ==
    /\ pc = "ch_isnil"
    /\ \/ /\ lua_isnil(stack, -1)
          /\ h' = [Leave(Use(h, ValidIndex(stack, base, -1)), "callHello", stack)
                      EXCEPT !.notFound["callHello"] = TRUE]
          /\ pc' = "cs_getglobal"
       \/ /\ ~lua_isnil(stack, -1)
          /\ h' = Use(h, ValidIndex(stack, base, -1))
          /\ pc' = "ch_call"
    /\ UNCHANGED <<prog, exitCode, L, env, globals, stack, base, oldtop, retpc, top,
                   handlerIndex, result, err, first, second, out>>

\* lua_call(L,nargs,nresults) made by op: it returns, or the error leaves the
\* operation (no protected call is running: Lua calls the panic function and
\* aborts)
DoCall(op, nargs, nresults, nextpc, returns) ==
    LET f == stack[FuncPos(stack, nargs)]
        hh == [Use(h, ValidIndex(stack, base, 0 - nargs - 1))
                  EXCEPT !.invoked[op] = TRUE]
    IN \/ /\ "return" \in Outcomes(f)
          /\ stack' = StackAfterReturn(stack, nargs, nresults)
          /\ h' = IF returns
                  THEN Leave(hh, op, StackAfterReturn(stack, nargs, nresults))
                  ELSE hh
          /\ pc' = nextpc
       \/ /\ \E o \in Outcomes(f) \ {"return"} :
                h' = [Abort(hh, "panic") EXCEPT !.raised[op] = TRUE]
          /\ pc' = "aborted"
          /\ UNCHANGED stack

ch_call ==
    /\ pc = "ch_call"
    /\ DoCall("callHello", 0, 0, "cs_getglobal", TRUE)
    /\ UNCHANGED <<prog, exitCode, L, env, globals, base, oldtop, retpc, top,
                   handlerIndex, result, err, first, second, out>>

----------------------------------------------------------------------------
(* void callSwap(lua_State *L) *)

cs_getglobal ==
    /\ pc = "cs_getglobal"
    /\ stack' = lua_getglobal(stack, globals, "swap")
    /\ h' = [Enter(Use(h, TRUE), "callSwap", stack)
                EXCEPT !.looked["callSwap"] = globals["swap"]]
    /\ pc' = "cs_push1"
    /\ UNCHANGED <<prog, exitCode, L, env, globals, base, oldtop, retpc, top,
                   handlerIndex, result, err, first, second, out>>

cs_push1 ==
    /\ pc = "cs_push1"
    /\ stack' = lua_pushstring(stack, "red")
    /\ h' = Use(h, TRUE)
    /\ pc' = "cs_push2"
    /\ UNCHANGED <<prog, exitCode, L, env, globals, base, oldtop, retpc, top,
                   handlerIndex, result, err, first, second, out>>

cs_push2 ==
    /\ pc = "cs_push2"
    /\ stack' = lua_pushstring(stack, "green")
    /\ h' = Use(h, TRUE)
    /\ pc' = "cs_call"
    /\ UNCHANGED <<prog, exitCode, L, env, globals, base, oldtop, retpc, top,
                   handlerIndex, result, err, first, second, out>>

cs_call ==
    /\ pc = "cs_call"
    /\ DoCall("callSwap", 2, 2, "cs_first", FALSE)
    /\ UNCHANGED <<prog, exitCode, L, env, globals, base, oldtop, retpc, top,
                   handlerIndex, result, err, first, second, out>>

\* callSwap reading the first result at the top instead of below it
cs_first_top ==
    /\ pc = "cs_first"
    /\ first' = lua_tostring(stack, -1)
    /\ stack' = StackAfterToString(stack, -1)
    /\ h' = Use(h, ValidIndex(stack, base, -1))
    /\ pc' = "cs_second"
    /\ UNCHANGED <<prog, exitCode, L, env, globals, base, oldtop, retpc, top,
                   handlerIndex, result, err, second, out>>

cs_first ==
    /\ pc = "cs_first"
    /\ first' = lua_tostring(stack, -2)
    /\ stack' = StackAfterToString(stack, -2)
    /\ h' = Use(h, ValidIndex(stack, base, -2))
    /\ pc' = "cs_second"
    /\ UNCHANGED <<prog, exitCode, L, env, globals, base, oldtop, retpc, top,
                   handlerIndex, result, err, second, out>>

cs_second ==
    /\ pc = "cs_second"
    /\ second' = lua_tostring(stack, -1)
    /\ stack' = StackAfterToString(stack, -1)
    /\ h' = Use(h, ValidIndex(stack, base, -1))
    /\ pc' = "cs_print"
    /\ UNCHANGED <<prog, exitCode, L, env, globals, base, oldtop, retpc, top,
                   handlerIndex, result, err, first, out>>

\* std::cout << first << second: inserting a null const char * is undefined
\* behaviour; the stream may take it (and go bad) or the process may crash
cs_print ==
    /\ pc = "cs_print"
    /\ \/ /\ out' = <<first, second>>
          /\ pc' = "cs_pop"
          /\ UNCHANGED h
       \/ /\ NULLPTR \in {first, second}
          /\ h' = Abort(h, "ub")
          /\ pc' = "aborted"
          /\ UNCHANGED out
    /\ UNCHANGED <<prog, exitCode, L, env, globals, stack, base, oldtop, retpc, top,
                   handlerIndex, result, err, first, second>>

cs_pop ==
    /\ pc = "cs_pop"
    /\ stack' = lua_pop(stack, base, 2)
    /\ h' = Leave(Use(h, lua_gettop(stack, base) >= 2), "callSwap",
                  lua_pop(stack, base, 2))
    /\ pc' = "pf_getglobal"
    /\ UNCHANGED <<prog, exitCode, L, env, globals, base, oldtop, retpc, top,
                   handlerIndex, result, err, first, second, out>>

----------------------------------------------------------------------------
(* lua_pcall(L,nargs,nresults,msgh) made by op.  The call returns (LUA_OK);
   or the callee raises: without a message handler the raised value is the
   error value (LUA_ERRRUN), with one the handler at msgh is called with the
   raised value on top of the stack as it stands; or the interpreter fails
   by itself (LUA_ERRMEM, LUA_ERRGCMM, LUA_ERRERR), for which the handler is
   not called. *)
DoPcall(op, nargs, nresults, msgh, nextpc) ==
    LET fpos == FuncPos(stack, nargs)
        f == stack[fpos]
        hh == [Use(h, ValidIndex(stack, base, 0 - nargs - 1)
                      /\ (msgh = 0 \/ ValidIndex(stack, base, msgh)))
                  EXCEPT !.invoked[op] = TRUE, !.pcalls[op] = @ + 1,
                         !.msgh = msgh, !.running = op]
    IN \/ /\ "return" \in Outcomes(f)
          /\ stack' = StackAfterReturn(stack, nargs, nresults)
          /\ result' = "LUA_OK"
          /\ h' = [hh EXCEPT !.status[op] = "LUA_OK"]
          /\ pc' = nextpc
          /\ UNCHANGED <<base, oldtop, retpc>>
       \/ \E e \in Raised(f) :
            IF msgh # 0 /\ At(stack, msgh) = CFunc("messageHandler")
            THEN /\ stack' = Push(stack, e)
                 /\ base' = Len(stack)
                 /\ oldtop' = fpos
                 /\ retpc' = nextpc
                 /\ h' = [hh EXCEPT !.raised[op] = TRUE, !.handlerCalls = @ + 1,
                                    !.mhEntry = Push(stack, e)]
                 /\ pc' = "mh_tostring"
                 /\ UNCHANGED result
            ELSE /\ stack' = StackAfterError(stack, fpos,
                                IF msgh = 0 THEN e ELSE InterpErr("errerr"))
                 /\ result' = IF msgh = 0 THEN "LUA_ERRRUN" ELSE "LUA_ERRERR"
                 /\ h' = [hh EXCEPT !.raised[op] = TRUE,
                             !.status[op] = IF msgh = 0 THEN "LUA_ERRRUN"
                                            ELSE "LUA_ERRERR"]
                 /\ pc' = nextpc
                 /\ UNCHANGED <<base, oldtop, retpc>>
       \/ \E o \in Outcomes(f) \ {"return", "raise"} :
            /\ stack' = StackAfterError(stack, fpos, InterpErr(o))
            /\ result' = StatusOf(o)
            /\ h' = [hh EXCEPT !.status[op] = StatusOf(o)]
            /\ pc' = nextpc
            /\ UNCHANGED <<base, oldtop, retpc>>

----------------------------------------------------------------------------
(* void pcallFail(lua_State *L) *)

pf_getglobal ==
    /\ pc = "pf_getglobal"
    /\ stack' = lua_getglobal(stack, globals, "fail")
    /\ result' = "none"
    /\ h' = [Enter(Use(h, TRUE), "pcallFail", stack)
                EXCEPT !.looked["pcallFail"] = globals["fail"],
                       !.preDepth["pcallFail"] = Depth(stack)]
    /\ pc' = "pf_isnil"
    /\ UNCHANGED <<prog, exitCode, L, env, globals, base, oldtop, retpc, top,
                   handlerIndex, err, first, second, out>>

pf_isnil ==
    /\ pc = "pf_isnil"
    /\ \/ /\ lua_isnil(stack, -1)
          /\ h' = [Leave(Use(h, ValidIndex(stack, base, -1)), "pcallFail", stack)
                      EXCEPT !.notFound["pcallFail"] = TRUE]
          /\ pc' = "ps_gettop"
       \/ /\ ~lua_isnil(stack, -1)
          /\ h' = Use(h, ValidIndex(stack, base, -1))
          /\ pc' = "pf_pcall"
    /\ UNCHANGED <<prog, exitCode, L, env, globals, stack, base, oldtop, retpc,
                   top, handlerIndex, result, err, first, second, out>>

pf_pcall ==
    /\ pc = "pf_pcall"
    /\ DoPcall("pcallFail", 0, 0, 0, "pf_check")
    /\ UNCHANGED <<prog, exitCode, L, env, globals, top, handlerIndex, err,
                   first, second, out>>

\* if (result == LUA_ERRRUN) ... else if ... : the branch taken after lua_pcall
pf_check ==
    /\ pc = "pf_check"
    /\ \/ /\ result = "LUA_ERRRUN"
          /\ err' = lua_tostring(stack, -1)
          /\ stack' = StackAfterToString(stack, -1)
          /\ h' = Use(h, ValidIndex(stack, base, -1))
          /\ pc' = "pf_print"
       \/ /\ result \in {"LUA_ERRMEM", "LUA_ERRERR", "LUA_ERRGCMM"}
          /\ h' = [Leave(h, "pcallFail", stack)
                      EXCEPT !.reported["pcallFail"] = @ + 1]
          /\ pc' = "ps_gettop"
          /\ UNCHANGED <<err, stack>>
       \/ /\ result = "LUA_OK"
          /\ h' = Leave(h, "pcallFail", stack)
          /\ pc' = "ps_gettop"
          /\ UNCHANGED <<err, stack>>
    /\ UNCHANGED <<prog, exitCode, L, env, globals, base, oldtop, retpc, top,
                   handlerIndex, result, first, second, out>>

\* std::cerr << "Error: " << err: undefined behaviour when err is null
pf_print ==
    /\ pc = "pf_print"
    /\ \/ /\ h' = [h EXCEPT !.reported["pcallFail"] = @ + 1]
          /\ pc' = "pf_pop"
       \/ /\ err = NULLPTR
          /\ h' = Abort(h, "ub")
          /\ pc' = "aborted"
    /\ UNCHANGED <<prog, exitCode, L, env, globals, stack, base, oldtop, retpc,
                   top, handlerIndex, result, err, first, second, out>>

\* pcallFail popping two values for the one error value
pf_pop_two ==
    /\ pc = "pf_pop"
    /\ stack' = lua_pop(stack, base, 2)
    /\ h' = Leave(Use(h, lua_gettop(stack, base) >= 2), "pcallFail",
                  lua_pop(stack, base, 2))
    /\ pc' = "ps_gettop"
    /\ UNCHANGED <<prog, exitCode, L, env, globals, base, oldtop, retpc, top,
                   handlerIndex, result, err, first, second, out>>

pf_pop ==
    /\ pc = "pf_pop"
    /\ stack' = lua_pop(stack, base, 1)
    /\ h' = Leave(Use(h, lua_gettop(stack, base) >= 1), "pcallFail",
                  lua_pop(stack, base, 1))
    /\ pc' = "ps_gettop"
    /\ UNCHANGED <<prog, exitCode, L, env, globals, base, oldtop, retpc, top,
                   handlerIndex, result, err, first, second, out>>

----------------------------------------------------------------------------
(* int messageHandler(lua_State *L), run by lua_pcall in its own frame *)

mh_tostring ==
    /\ pc = "mh_tostring"
    /\ err' = lua_tostring(stack, -1)
    /\ stack' = StackAfterToString(stack, -1)
    /\ h' = Use(h, ValidIndex(stack, base, -1))
    /\ pc' = "mh_traceback"
    /\ UNCHANGED <<prog, exitCode, L, env, globals, base, oldtop, retpc, top,
                   handlerIndex, result, first, second, out>>

\* luaL_traceback builds a string; when that fails the error is one raised
\* while running the message handler, and lua_pcall returns LUA_ERRERR
mh_traceback ==
    /\ pc = "mh_traceback"
    /\ \/ /\ stack' = luaL_traceback(stack, err)
          /\ h' = Use(h, TRUE)
          /\ pc' = "mh_remove"
          /\ UNCHANGED <<base, result>>
       \/ /\ stack' = StackAfterError(stack, oldtop, InterpErr("errerr"))
          /\ base' = 0
          /\ result' = "LUA_ERRERR"
          /\ h' = [Use(h, TRUE) EXCEPT !.handlerFailed = TRUE,
                                       !.status[h.running] = "LUA_ERRERR"]
          /\ pc' = retpc
    /\ UNCHANGED <<prog, exitCode, L, env, globals, oldtop, retpc, top,
                   handlerIndex, err, first, second, out>>

\* messageHandler removing the traceback it pushed instead of the error
mh_remove_top ==
    /\ pc = "mh_remove"
    /\ stack' = lua_remove(stack, -1)
    /\ h' = Use(h, ValidIndex(stack, base, -1))
    /\ pc' = "mh_return"
    /\ UNCHANGED <<prog, exitCode, L, env, globals, base, oldtop, retpc, top,
                   handlerIndex, result, err, first, second, out>>

mh_remove ==
    /\ pc = "mh_remove"
    /\ stack' = lua_remove(stack, -2)
    /\ h' = Use(h, ValidIndex(stack, base, -2))
    /\ pc' = "mh_return"
    /\ UNCHANGED <<prog, exitCode, L, env, globals, base, oldtop, retpc, top,
                   handlerIndex, result, err, first, second, out>>

\* the number of values messageHandler returns
mh_nresults == 1

\* lua_pcall takes one result from the handler: the first of the n values
\* the handler returned from the top of its frame
HandlerResult(s, n) == Adjust(SubSeq(s, Len(s) - n + 1, Len(s)), 1)[1]

\* return 1: the top value is the handler's result, which lua_pcall leaves
\* as the error value in place of the function and its arguments
mh_return ==
    /\ pc = "mh_return"
    /\ stack' = StackAfterError(stack, oldtop,
                                HandlerResult(stack, mh_nresults))
    /\ base' = 0
    /\ result' = "LUA_ERRRUN"
    /\ h' = [h EXCEPT !.mhExit = stack, !.mhNResults = mh_nresults,
                      !.status[h.running] = "LUA_ERRRUN"]
    /\ pc' = retpc
    /\ UNCHANGED <<prog, exitCode, L, env, globals, oldtop, retpc, top,
                   handlerIndex, err, first, second, out>>

----------------------------------------------------------------------------
(* void pcallSwap(lua_State *L) *)

ps_gettop ==
    /\ pc = "ps_gettop"
    /\ top' = lua_gettop(stack, base)
    /\ result' = "none"
    /\ h' = Enter(Use(h, TRUE), "pcallSwap", stack)
    /\ pc' = "ps_pushhandler"
    /\ UNCHANGED <<prog, exitCode, L, env, globals, stack, base, oldtop, retpc,
                   handlerIndex, err, first, second, out>>

\* lua_pushcfunction(L,messageHandler); int handlerIndex = lua_gettop(L);
ps_pushhandler ==
    /\ pc = "ps_pushhandler"
    /\ stack' = lua_pushcfunction(stack, "messageHandler")
    /\ handlerIndex' = lua_gettop(lua_pushcfunction(stack, "messageHandler"), base)
    /\ h' = [Use(h, TRUE) EXCEPT !.handlerPos = Depth(stack) + 1]
    /\ pc' = "ps_getglobal"
    /\ UNCHANGED <<prog, exitCode, L, env, globals, base, oldtop, retpc, top,
                   result, err, first, second, out>>

ps_getglobal ==
    /\ pc = "ps_getglobal"
    /\ stack' = lua_getglobal(stack, globals, "swap")
    /\ h' = [Use(h, TRUE) EXCEPT !.looked["pcallSwap"] = globals["swap"],
                                 !.preDepth["pcallSwap"] = Depth(stack)]
    /\ pc' = "ps_pushstring"
    /\ UNCHANGED <<prog, exitCode, L, env, globals, base, oldtop, retpc, top,
                   handlerIndex, result, err, first, second, out>>

ps_pushstring ==
    /\ pc = "ps_pushstring"
    /\ stack' = lua_pushstring(stack, "red")
    /\ h' = Use(h, TRUE)
    /\ pc' = "ps_pcall"
    /\ UNCHANGED <<prog, exitCode, L, env, globals, base, oldtop, retpc, top,
                   handlerIndex, result, err, first, second, out>>

\* pcallSwap declaring no argument for the one it pushed
ps_pcall_noargs ==
    /\ pc = "ps_pcall"
    /\ DoPcall("pcallSwap", 0, 2, handlerIndex, "ps_check")
    /\ UNCHANGED <<prog, exitCode, L, env, globals, top, handlerIndex, err,
                   first, second, out>>

\* pcallSwap passing no message handler to lua_pcall
ps_pcall_nohandler ==
    /\ pc = "ps_pcall"
    /\ DoPcall("pcallSwap", 1, 2, 0, "ps_check")
    /\ UNCHANGED <<prog, exitCode, L, env, globals, top, handlerIndex, err,
                   first, second, out>>

ps_pcall ==
    /\ pc = "ps_pcall"
    /\ DoPcall("pcallSwap", 1, 2, handlerIndex, "ps_check")
    /\ UNCHANGED <<prog, exitCode, L, env, globals, top, handlerIndex, err,
                   first, second, out>>

ps_check ==
    /\ pc = "ps_check"
    /\ \/ /\ result = "LUA_ERRRUN"
          /\ err' = lua_tostring(stack, -1)
          /\ stack' = StackAfterToString(stack, -1)
          /\ h' = Use(h, ValidIndex(stack, base, -1))
          /\ pc' = "ps_print"
       \/ /\ result \in {"LUA_ERRMEM", "LUA_ERRERR", "LUA_ERRGCMM"}
          /\ h' = [Leave(h, "pcallSwap", stack)
                      EXCEPT !.reported["pcallSwap"] = @ + 1]
          /\ pc' = "m_close"
          /\ UNCHANGED <<err, stack>>
       \/ /\ result = "LUA_OK"
          /\ pc' = "ps_settop"
          /\ UNCHANGED <<err, stack, h>>
    /\ UNCHANGED <<prog, exitCode, L, env, globals, base, oldtop, retpc, top,
                   handlerIndex, result, first, second, out>>

\* std::cerr << err: undefined behaviour when err is null
ps_print ==
    /\ pc = "ps_print"
    /\ IF err = NULLPTR
       THEN \E crash \in BOOLEAN :
              /\ h' = IF crash THEN Abort(h, "ub")
                      ELSE [h EXCEPT !.reported["pcallSwap"] = @ + 1]
              /\ pc' = IF crash THEN "aborted" ELSE "ps_pop"
       ELSE /\ h' = [h EXCEPT !.reported["pcallSwap"] = @ + 1]
            /\ pc' = "ps_pop"
    /\ UNCHANGED <<prog, exitCode, L, env, globals, stack, base, oldtop, retpc,
                   top, handlerIndex, result, err, first, second, out>>

ps_pop ==
    /\ pc = "ps_pop"
    /\ stack' = lua_pop(stack, base, 1)
    /\ h' = Leave(Use(h, lua_gettop(stack, base) >= 1), "pcallSwap",
                  lua_pop(stack, base, 1))
    /\ pc' = "m_close"
    /\ UNCHANGED <<prog, exitCode, L, env, globals, base, oldtop, retpc, top,
                   handlerIndex, result, err, first, second, out>>

ps_settop ==
    /\ pc = "ps_settop"
    /\ stack' = lua_settop(stack, base, top)
    /\ h' = Leave(Use(h, top <= lua_gettop(stack, base)), "pcallSwap",
                  lua_settop(stack, base, top))
    /\ pc' = "m_close"
    /\ UNCHANGED <<prog, exitCode, L, env, globals, base, oldtop, retpc, top,
                   handlerIndex, result, err, first, second, out>>

----------------------------------------------------------------------------
Next ==
    \/ m_newstate \/ m_openlibs \/ m_dostring \/ m_dofile \/ m_checkstring
    \/ ch_getglobal \/ ch_isnil \/ ch_call
    \/ cs_getglobal \/ cs_push1 \/ cs_push2 \/ cs_call \/ cs_first
    \/ cs_second \/ cs_print \/ cs_pop
    \/ pf_getglobal \/ pf_isnil \/ pf_pcall \/ pf_check \/ pf_print \/ pf_pop
    \/ mh_tostring \/ mh_traceback \/ mh_remove \/ mh_return
    \/ ps_gettop \/ ps_pushhandler \/ ps_getglobal \/ ps_pushstring
    \/ ps_pcall \/ ps_check \/ ps_print \/ ps_pop \/ ps_settop
    \/ m_close \/ m_return

Spec == Init /\ [][Next]_vars

----------------------------------------------------------------------------
(* Properties *)

Terminated == pc \in {"done", "aborted"}
NonOk == {"LUA_ERRRUN", "LUA_ERRMEM", "LUA_ERRERR", "LUA_ERRGCMM"}
Returned(op) == h.retDepth[op] # NoDepth

\* C1: in both programs, when main returns after luaL_newstate succeeded,
\* lua_close has been called exactly once (also on the early return taken
\* when luaL_dostring / luaL_dofile fails), and never when luaL_newstate
\* failed.
C1_ClosedOnEveryExit ==
    pc = "done" => h.closeCount = (IF h.created THEN 1 ELSE 0)

\* C2: pcallFail and pcallSwap, for every non-Ok status of lua_pcall, return
\* with the stack depth they were entered with (the error value popped).
C2_NonOkRestoresDepth ==
    \A op \in {"pcallFail", "pcallSwap"} :
        (Returned(op) /\ h.status[op] \in NonOk)
            => h.retDepth[op] = h.entryDepth[op]

\* C3: in every call operation a looked-up global that is absent or not
\* callable is never invoked (neither lua_call nor lua_pcall is reached with
\* it), and the operation reports "not found" instead.
C3_CheckedBeforeInvoke ==
    \A op \in Ops :
        (h.looked[op] # NULLPTR /\ ~Callable(h.looked[op]))
            => /\ ~h.invoked[op]
               /\ (Returned(op) => h.notFound[op])

\* C4: right after lua_pcall, the depth is the depth just before the callable
\* was pushed plus the declared result count when the status is LUA_OK
\* (0 in pcallFail, 2 in pcallSwap), and plus exactly one (the error value)
\* for every other status.
C4_PcallDepth ==
    /\ pc = "pf_check" =>
          Depth(stack) = h.preDepth["pcallFail"]
                           + (IF result = "LUA_OK" THEN 0 ELSE 1)
    /\ pc = "ps_check" =>
          Depth(stack) = h.preDepth["pcallSwap"]
                           + (IF result = "LUA_OK" THEN 2 ELSE 1)

C4_Witness ==
    /\ pc = "ps_check"
    /\ result \in NonOk
    /\ h.status["pcallFail"] = "LUA_OK"
    /\ h.preDepth["pcallSwap"] > 1

\* C5: once lua_pcall has returned a status in pcallFail or pcallSwap
\* (whatever the status), the run ends with main returning 0 after lua_close;
\* and an error raised inside the unprotected callHello or callSwap ends the
\* run without control returning to main.
C5_ProtectedErrorsContained ==
    /\ (Terminated /\ \E op \in {"pcallFail", "pcallSwap"} : h.status[op] # "none")
          => (pc = "done" /\ exitCode = 0 /\ h.closeCount = 1)
    /\ \A op \in {"callHello", "callSwap"} : h.raised[op] => pc = "aborted"

\* C6: messageHandler, entered with the raw error value on top, returns
\* exactly one value; when it returns, the top of the stack is the traceback
\* built from the error's text, the error value itself is gone, the depth is
\* the depth at entry and every slot below the top is as it was at entry.
C6_HandlerFrameEffect ==
    /\ pc = "mh_return" =>
          /\ Depth(stack) = Depth(h.mhEntry)
          /\ At(stack, -1) = Val("str", lua_tostring(h.mhEntry, -1).v, TRUE)
          /\ SubSeq(stack, 1, Len(stack) - 1)
                = SubSeq(h.mhEntry, 1, Len(h.mhEntry) - 1)
          /\ lua_gettop(stack, base) = 1
    /\ h.mhExit # <<>> =>
          /\ h.mhNResults = 1
          /\ At(h.mhExit, -1).tb
          /\ result = "LUA_ERRRUN" /\ pc = "ps_check" => At(stack, -1) = At(h.mhExit, -1)

C6_Witness ==
    /\ pc = "mh_return"
    /\ At(h.mhEntry, -1) = Tbl
    /\ Depth(stack) > 3

\* C7: callSwap calls with the callable, "red" and "green" on top of the
\* stack in that order, for 2 arguments and 2 results; with a swap function
\* the values it reads (first at -2, second at -1) are "green" then "red";
\* and it returns with the depth it was entered with.
C7_CallSwap ==
    /\ pc = "cs_call" =>
          SubSeq(stack, Len(stack) - 2, Len(stack))
              = <<globals["swap"], Str("red"), Str("green")>>
    /\ pc = "cs_first" => Depth(stack) = h.entryDepth["callSwap"] + 2
    /\ (pc = "cs_pop" /\ h.looked["callSwap"] = Func("swap")) =>
          /\ first = Str("green")
          /\ second = Str("red")
          /\ out = <<Str("green"), Str("red")>>
    /\ Returned("callSwap") => h.retDepth["callSwap"] = h.entryDepth["callSwap"]

C7_Witness ==
    /\ pc = "pf_getglobal"
    /\ h.looked["callSwap"] = Func("swap")
    /\ out = <<Str("green"), Str("red")>>
    /\ Depth(stack) > 0

C9_NoEntryOutlivesItsCall ==
    prog = "calling" =>
        /\ \A op \in Ops : Returned(op) => h.retDepth[op] = h.entryDepth[op]
        /\ h.closeDepth # NoDepth => h.closeDepth = h.loadDepth

\* C10: in the calling-lua-function program every relative stack access
\* names a slot of the running frame, no lua_pop removes more than the frame
\* holds, lua_settop(L,top) never grows the stack, and the instance is used
\* only between luaL_newstate succeeding and lua_close.
C10_StackAccessSafe ==
    prog = "calling" =>
        /\ ~h.badIndex
        /\ ~h.outOfLife
        /\ pc \in {"ch_isnil", "pf_isnil", "cs_second", "mh_tostring",
                   "m_checkstring", "pf_pop", "ps_pop"}
              => ValidIndex(stack, base, -1)
        /\ (pc \in {"pf_check", "ps_check"} /\ result = "LUA_ERRRUN")
              => ValidIndex(stack, base, -1)
        /\ pc \in {"cs_first", "mh_remove", "cs_pop"} => ValidIndex(stack, base, -2)
        /\ pc = "ps_settop" => top <= lua_gettop(stack, base)
        /\ L # "open" => pc \in {"m_newstate", "m_return", "done"}

C10_Witness ==
    /\ prog = "calling"
    /\ pc = "done"
    /\ exitCode = 0
    /\ h.handlerCalls = 1
    /\ h.status["pcallFail"] = "LUA_ERRRUN"
    /\ Returned("callSwap")

====
